---- MODULE Spec2Model ----
(***************************************************************************)
(* EchoVerse: text -> tone rewrite (Ollama) -> speech (gTTS / Piper) ->    *)
(* files in outputs/.  Two front-ends share the output directory: the      *)
(* Streamlit script (app.py, using core_echoverse.py) and the terminal     *)
(* script (for_terminal.py).                                               *)
(*                                                                         *)
(* Python strings that the code inspects character by character (input     *)
(* text, tones, file names) are sequences of one-character strings.        *)
(***************************************************************************)
EXTENDS Integers, Sequences, FiniteSets, TLC

\* ------------------------------------------------------------------ bounds
\* Seconds the wall clock can advance during a run (clock in 0..MaxClock).
MaxClock == 1
\* Jobs (Generate clicks plus terminal runs) started in one behaviour.
MaxJobs == 2
\* Longest tone drawn when tone sanitization is exercised on its own.
MaxToneLen == 3

\* --------------------------------------------------------------- characters
\* The characters in use, in code-point order (Python compares str by code point).
AsciiOrder ==
  << "\n", " ", "!", "&", "-", ".",
     "0", "1", "2", "3", "4", "5", "6", "7", "8", "9",
     "A", "B", "C", "D", "E", "F", "G", "H", "I", "J", "K", "L", "M",
     "N", "O", "P", "Q", "R", "S", "T", "U", "V", "W", "X", "Y", "Z",
     "_",
     "a", "b", "c", "d", "e", "f", "g", "h", "i", "j", "k", "l", "m",
     "n", "o", "p", "q", "r", "s", "t", "u", "v", "w", "x", "y", "z" >>

Ord(c) == CHOOSE i \in 1..Len(AsciiOrder) : AsciiOrder[i] = c

DigitChars == << "0", "1", "2", "3", "4", "5", "6", "7", "8", "9" >>

Digits == { DigitChars[i] : i \in 1..10 }

Letters == { AsciiOrder[i] : i \in (17..42) \cup (44..69) }

\* str.isalnum() of one character
IsAlnum(c) == c \in Digits \cup Letters

\* the characters str.strip() removes, among those in use
Whitespace == { " ", "\n" }

RECURSIVE LStrip(_, _)
LStrip(s, cs) == IF s # << >> /\ Head(s) \in cs THEN LStrip(Tail(s), cs) ELSE s

RECURSIVE RStrip(_, _)
RStrip(s, cs) ==
  IF s # << >> /\ s[Len(s)] \in cs THEN RStrip(SubSeq(s, 1, Len(s) - 1), cs) ELSE s

\* s.strip(cs)
StripChars(s, cs) == RStrip(LStrip(s, cs), cs)

\* A strip that removes spaces only.
StripSpacesOnly(s) == StripChars(s, { " " })

\* s.strip()
Strip(s) == StripChars(s, Whitespace)

KeepChar(c) == IsAlnum(c) \/ c \in { "-", "_" }

\* "".join(c for c in s if c.isalnum() or c in ("-","_")).strip("_")
SafeName(s) == StripChars(SelectSeq(s, KeepChar), { "_" })

\* lexicographic order of two strings, by code point
RECURSIVE StrLess(_, _)
StrLess(a, b) ==
  IF b = << >> THEN FALSE
  ELSE IF a = << >> THEN TRUE
  ELSE IF Head(a) = Head(b) THEN StrLess(Tail(a), Tail(b))
  ELSE Ord(Head(a)) < Ord(Head(b))

StartsWith(s, p) == Len(s) >= Len(p) /\ SubSeq(s, 1, Len(p)) = p

EndsWith(s, p) == Len(s) >= Len(p) /\ SubSeq(s, Len(s) - Len(p) + 1, Len(s)) = p

\* ------------------------------------------------------------ string literals
\* "rewritten_"
StrRewritten == << "r", "e", "w", "r", "i", "t", "t", "e", "n", "_" >>

\* "speech" (the default --out-prefix, and the browser's fixed prefix)
StrSpeech == << "s", "p", "e", "e", "c", "h" >>

\* "meta_"
StrMeta == << "m", "e", "t", "a", "_" >>

\* "_"
StrUnderscore == << "_" >>

StrTxt == << ".", "t", "x", "t" >>

StrMp3 == << ".", "m", "p", "3" >>

StrWav == << ".", "w", "a", "v" >>

StrJson == << ".", "j", "s", "o", "n" >>

DEFAULT_TONES ==
  << << "N", "e", "u", "t", "r", "a", "l" >>,
     << "S", "u", "s", "p", "e", "n", "s", "e", "f", "u", "l" >>,
     << "I", "n", "s", "p", "i", "r", "i", "n", "g" >>,
     << "J", "o", "y", "f", "u", "l" >>,
     << "C", "a", "l", "m" >>,
     << "D", "r", "a", "m", "a", "t", "i", "c" >>,
     << "M", "o", "t", "i", "v", "a", "t", "i", "o", "n", "a", "l" >>,
     << "H", "u", "m", "o", "r", "o", "u", "s" >>,
     << "S", "e", "r", "i", "o", "u", "s" >>,
     << "U", "r", "g", "e", "n", "t" >>,
     << "F", "o", "r", "m", "a", "l" >>,
     << "C", "a", "s", "u", "a", "l" >>,
     << "F", "r", "i", "e", "n", "d", "l", "y" >>,
     << "A", "u", "t", "h", "o", "r", "i", "t", "a", "t", "i", "v", "e" >>,
     << "R", "o", "m", "a", "n", "t", "i", "c" >>,
     << "C", "i", "n", "e", "m", "a", "t", "i", "c" >>,
     << "N", "a", "r", "r", "a", "t", "i", "v", "e" >>,
     << "E", "m", "p", "a", "t", "h", "e", "t", "i", "c" >> >>

\* ------------------------------------------------------- timestamps and names
\* The date and the hour and minute of the run: the modelled clock counts the
\* seconds of one minute, 2025-01-01 00:00:00 + clock.
DateHourMinute == << "2", "0", "2", "5", "0", "1", "0", "1", "-", "0", "0", "0", "0" >>

\* datetime.datetime.now().strftime("%Y%m%d-%H%M%S") at second t of that minute
Strftime(t) == DateHourMinute \o << DigitChars[(t \div 10) + 1], DigitChars[(t % 10) + 1] >>

\* A text file name that leaves the tone out.
TextNameNoTone(tone, ts) == StrRewritten \o ts \o StrTxt

\* f"rewritten_{safe_tone}_{ts}.txt"
TextName(tone, ts) == StrRewritten \o SafeName(tone) \o StrUnderscore \o ts \o StrTxt

\* f"{prefix}_{tone_safe}_{ts}.mp3"
Mp3Name(prefix, tone, ts) ==
  prefix \o StrUnderscore \o SafeName(tone) \o StrUnderscore \o ts \o StrMp3

\* f"meta_{tone_safe}_{ts}.json"
MetaName(tone, ts) == StrMeta \o SafeName(tone) \o StrUnderscore \o ts \o StrJson

\* Path.stem: the name without its last suffix
Stem(name) ==
  LET dots == { i \in 2..Len(name) : name[i] = "." }
  IN  IF dots = {} THEN name
      ELSE SubSeq(name, 1, (CHOOSE i \in dots : \A j \in dots : j <= i) - 1)

\* out_dir / (out_mp3_path.stem + ".wav")
WavName(mp3) == Stem(mp3) \o StrWav

\* '_'.join(stem.split('_')[1:])
AfterFirstUnderscore(stem) ==
  LET us == { i \in 1..Len(stem) : stem[i] = "_" }
  IN  IF us = {} THEN << >>
      ELSE SubSeq(stem, (CHOOSE i \in us : \A j \in us : i <= j) + 1, Len(stem))

\* out / f"meta_{'_'.join(f.stem.split('_')[1:])}.json"
MetaPathOf(f) == StrMeta \o AfterFirstUnderscore(Stem(f)) \o StrJson

\* ------------------------------------------------------------ rewrite client
\* Errors are records; "kind" tells the raise statement, the other fields what
\* its message carries.
NoErr == [kind |-> "none", model |-> "", installed |-> << >>, cause |-> "", status |-> 0]

\* What the endpoint can answer to GET /api/tags.  An entry of "models" either
\* has a name or lacks the key.
Gemma == [has_name |-> TRUE, name |-> "gemma3:4b"]

Nameless == [has_name |-> FALSE, name |-> ""]

NoTags == [kind |-> "none", cause |-> "", status |-> 0, models |-> << >>]

TagsResponses ==
  { [kind |-> "neterr", cause |-> "ConnectionError", status |-> 0, models |-> << >>],
    [kind |-> "http", cause |-> "", status |-> 500, models |-> << Gemma >>] }
  \cup { [kind |-> "http", cause |-> "", status |-> 200, models |-> ms] :
           ms \in { << >>, << Nameless, Gemma >> } }

\* What the endpoint can answer to POST /api/generate: no answer (a network
\* error), a status with a body, and for status 200 a JSON object with or
\* without the "response" field.
NoGen ==
  [kind |-> "none", cause |-> "", status |-> 0, not_found_body |-> FALSE,
   has_response |-> FALSE, response |-> << >>]

GenResponses ==
  { [kind |-> "neterr", cause |-> c, status |-> 0, not_found_body |-> FALSE,
     has_response |-> FALSE, response |-> << >>] : c \in { "ConnectionError", "Timeout" } }
  \cup { [kind |-> "http", cause |-> "", status |-> 404, not_found_body |-> nf,
          has_response |-> FALSE, response |-> << >>] : nf \in BOOLEAN }
  \cup { [kind |-> "http", cause |-> "", status |-> 500, not_found_body |-> FALSE,
          has_response |-> FALSE, response |-> << >>] }
  \cup { [kind |-> "http", cause |-> "", status |-> 200, not_found_body |-> FALSE,
          has_response |-> FALSE, response |-> << >>] }
  \cup { [kind |-> "http", cause |-> "", status |-> 200, not_found_body |-> FALSE,
          has_response |-> TRUE, response |-> r] :
           r \in { << "r", "1" >>, << " ", "r", "2", "\n" >> } }

ModelIds == { "gemma3:4b", "mistral" }

\* _ollama_models / ollama_models: the names listed, [] on any failure
OllamaModels(tags) ==
  IF tags.kind = "http" /\ tags.status = 200
  THEN LET named == SelectSeq(tags.models, LAMBDA m : m.has_name)
       IN  [i \in 1..Len(named) |-> named[i].name]
  ELSE << >>

Elems(seq) == { seq[i] : i \in 1..Len(seq) }

\* A presence check that is skipped.
EnsureModelPresentSkipped(model, tags) == NoErr

\* ensure_model_present: the error it raises, NoErr when it returns
EnsureModelPresent(model, tags) ==
  LET models == OllamaModels(tags)
  IN  IF model \notin Elems(models)
      THEN [NoErr EXCEPT !.kind = "model_not_found", !.model = model, !.installed = models]
      ELSE NoErr

\* The part of rewrite_with_ollama after the request was answered or failed.
GenerateOutcome(model, gen) ==
  IF gen.kind = "neterr"
  THEN [ok |-> FALSE, text |-> << >>,
        err |-> [NoErr EXCEPT !.kind = "unreachable", !.cause = gen.cause]]
  ELSE IF gen.status # 200
  THEN IF gen.status = 404 /\ gen.not_found_body
       THEN [ok |-> FALSE, text |-> << >>,
             err |-> [NoErr EXCEPT !.kind = "model_not_found_404", !.model = model]]
       ELSE [ok |-> FALSE, text |-> << >>,
             err |-> [NoErr EXCEPT !.kind = "http", !.status = gen.status]]
  ELSE IF ~gen.has_response
  THEN [ok |-> FALSE, text |-> << >>, err |-> [NoErr EXCEPT !.kind = "malformed"]]
  ELSE [ok |-> TRUE, text |-> Strip(gen.response), err |-> NoErr]

\* A rewrite that takes any answered request for a success.
RewriteIgnoringStatus(model, tags, gen) ==
  LET e == EnsureModelPresent(model, tags)
  IN  IF e.kind # "none"
      THEN [ok |-> FALSE, text |-> << >>, err |-> e, calls |-> << "tags" >>, gen |-> NoGen]
      ELSE [ok |-> gen.kind # "neterr", text |-> Strip(gen.response),
            err |-> GenerateOutcome(model, gen).err,
            calls |-> << "tags", "generate" >>, gen |-> gen]

\* rewrite_with_ollama: its result or error, and the requests it issued
RewriteWithOllama(model, tags, gen) ==
  LET e == EnsureModelPresent(model, tags)
  IN  IF e.kind # "none"
      THEN [ok |-> FALSE, text |-> << >>, err |-> e, calls |-> << "tags" >>, gen |-> NoGen]
      ELSE LET g == GenerateOutcome(model, gen)
           IN  [ok |-> g.ok, text |-> g.text, err |-> g.err,
                calls |-> << "tags", "generate" >>, gen |-> gen]

\* Every way one call of rewrite_with_ollama can go: the model asked for, the
\* answer to the listing call, and what the call then returns or raises.
RewriteCases ==
  { [model |-> model, tags |-> tags, r |-> RewriteWithOllama(model, tags, gen)] :
      model \in ModelIds, tags \in TagsResponses, gen \in GenResponses }

\* ------------------------------------------------------------ output store
NoMeta == [timestamp |-> << >>, tone |-> << >>, text_file |-> << >>, audio_file |-> << >>]

\* A file of outputs/: its kind, the text it holds (for audio: the text it was
\* synthesized from), the metadata it holds, and whether it was written whole.
FileOf(kind, text, meta, whole) == [kind |-> kind, text |-> text, meta |-> meta, whole |-> whole]

Put(out, name, content) ==
  [n \in (DOMAIN out) \cup { name } |-> IF n = name THEN content ELSE out[n]]

Remove(out, name) == [n \in (DOMAIN out) \ { name } |-> out[n]]

\* How a write can end: done, failed before the file was created, or failed
\* leaving a truncated file (OSError in both cases).
WriteOutcomes == { "ok", "fail_nofile", "fail_partial" }

AfterWrite(out, name, content, w) ==
  IF w = "ok" THEN Put(out, name, content)
  ELSE IF w = "fail_partial" THEN Put(out, name, [content EXCEPT !.whole = FALSE])
  ELSE out

\* ----------------------------------------------------- View Past Narrations
\* The number of entries the expander shows: files[:20]
ListLimit == 20

\* out.glob("speech_*.mp3")
GlobSpeechMp3(out) ==
  { n \in DOMAIN out :
      /\ Len(n) >= Len(StrSpeech) + 1 + Len(StrMp3)
      /\ StartsWith(n, StrSpeech \o StrUnderscore)
      /\ EndsWith(n, StrMp3) }

RECURSIVE SortedReverse(_)
\* sorted(names, reverse=True)
SortedReverse(names) ==
  IF names = {} THEN << >>
  ELSE LET top == CHOOSE n \in names : \A m \in names : m = n \/ StrLess(m, n)
       IN  << top >> \o SortedReverse(names \ { top })

\* One row of the expander: the file, and the caption when the metadata file
\* exists and json.loads accepts it.
Row(out, f) ==
  LET meta_path == MetaPathOf(f)
      readable == meta_path \in DOMAIN out /\ out[meta_path].whole
  IN  [name |-> f, caption |-> readable,
       meta |-> IF readable THEN out[meta_path].meta ELSE NoMeta]

\* with st.expander("View Past Narrations"): the rows rendered, in order
ViewPastNarrations(out) ==
  LET files == SortedReverse(GlobSpeechMp3(out))
      n == IF Len(files) < ListLimit THEN Len(files) ELSE ListLimit
  IN  [i \in 1..n |-> Row(out, files[i])]

\* ------------------------------------------------------------ terminal input
\* input(): the line without its newline
InputLine(line) ==
  IF line # << >> /\ line[Len(line)] = "\n" THEN SubSeq(line, 1, Len(line) - 1) ELSE line

IsInt(s) == s # << >> /\ \A i \in 1..Len(s) : s[i] \in Digits

RECURSIVE ParseInt(_)
\* int(s) of a string of digits
ParseInt(s) ==
  IF s = << >> THEN 0
  ELSE 10 * ParseInt(SubSeq(s, 1, Len(s) - 1)) + (Ord(s[Len(s)]) - Ord("0"))

RECURSIVE Join(_)
\* "".join(lines)
Join(lines) == IF lines = << >> THEN << >> ELSE Head(lines) \o Join(Tail(lines))

RECURSIVE ReadLines(_, _)
\* the loop of read_text_interactive: the lines kept, and the input left unread
ReadLines(stdin, lines) ==
  IF stdin = << >> THEN [lines |-> lines, rest |-> << >>]
  ELSE IF Strip(Head(stdin)) = << >> /\ Len(lines) > 0
  THEN [lines |-> lines, rest |-> Tail(stdin)]
  ELSE ReadLines(Tail(stdin), Append(lines, Head(stdin)))

\* read_text_interactive: the text before it is stripped, the text returned, the input left
ReadTextInteractive(stdin) ==
  LET r == ReadLines(stdin, << >>)
  IN  [raw |-> Join(r.lines), text |-> Strip(Join(r.lines)), rest |-> r.rest]

RECURSIVE PickToneInteractive(_, _)
\* pick_tone_interactive: the tone chosen, or eof when input() raises EOFError
PickToneInteractive(tones, stdin) ==
  IF stdin = << >> THEN [eof |-> TRUE, tone |-> << >>]
  ELSE LET s == Strip(InputLine(Head(stdin)))
       IN  IF ~IsInt(s) THEN PickToneInteractive(tones, Tail(stdin))
           ELSE IF ParseInt(s) = 0
           THEN IF Tail(stdin) = << >> THEN [eof |-> TRUE, tone |-> << >>]
                ELSE [eof |-> FALSE, tone |-> Strip(InputLine(stdin[2]))]
           ELSE IF 1 <= ParseInt(s) /\ ParseInt(s) <= Len(tones)
           THEN [eof |-> FALSE, tone |-> tones[ParseInt(s)]]
           ELSE PickToneInteractive(tones, Tail(stdin))

\* ------------------------------------------------------------------ inputs
\* The text of the browser's text area or uploaded file.
WebTexts == { << >>, << " ", "\n" >>, << " ", "5", "\n" >> }

\* The tones of the browser's select box that are exercised.
WebTones == { DEFAULT_TONES[5], DEFAULT_TONES[10] }

\* --input-file: not given, a path that does not exist, or a file with content.
InputFiles ==
  { [given |-> FALSE, exists |-> FALSE, content |-> << >>],
    [given |-> TRUE, exists |-> FALSE, content |-> << >>] }
  \cup { [given |-> TRUE, exists |-> TRUE, content |-> c] :
           c \in { << >>, << "\n", " " >>, << "5", "\n" >> } }

LineBlank == << "\n" >>

Line5 == << "5", "\n" >>

Line0 == << "0", "\n" >>

Line50 == << "5", "0", "\n" >>

LineCalmSlow == << "C", "a", "l", "m", "_", "S", "l", "o", "w", "\n" >>

\* What is typed at (or piped into) the terminal, line by line.
Stdins ==
  { << >>,
    << LineBlank, LineBlank >>,
    << Line5 >>,
    << Line5, LineBlank, Line5 >>,
    << Line5, LineBlank, LineBlank, Line50, Line5 >>,
    << LineBlank, Line5, LineBlank, Line0, LineCalmSlow >>,
    << Line5, LineBlank, Line0 >>,
    << Line0, LineCalmSlow >> }

\* --tone: omitted (empty), or a custom tone
ToneArgs == { << >>, << "C", "a", "l", "m", "!" >>, << "S", "l", "o", "w" >> }

\* --out-prefix: the default and one custom prefix
Prefixes == { StrSpeech, StrSpeech \o << "_", "C", "a", "l", "m" >> }

\* main from "Gather text" to "Pick tone": how the run ends there (exit 1 with
\* a message, or an uncaught EOFError of the tone picker), or the tone it
\* goes on with.  raw is the file's or the pasted text before strip().
GatherOf(f, stdin, arg) ==
  LET r == IF f.given
           THEN [raw |-> f.content, text |-> Strip(f.content), rest |-> stdin]
           ELSE ReadTextInteractive(stdin)
      t == IF arg # << >> THEN [eof |-> FALSE, tone |-> arg]
           ELSE PickToneInteractive(DEFAULT_TONES, r.rest)
  IN  IF f.given /\ ~f.exists
      THEN [end |-> "input_file_not_found", raw |-> << >>, tone |-> << >>]
      ELSE IF r.text = << >>
      THEN [end |-> "no_input_text", raw |-> r.raw, tone |-> << >>]
      ELSE IF t.eof
      THEN [end |-> "EOFError", raw |-> r.raw, tone |-> << >>]
      ELSE [end |-> "none", raw |-> r.raw, tone |-> t.tone]

GatherCases ==
  { GatherOf(f, stdin, arg) : f \in InputFiles, stdin \in Stdins, arg \in ToneArgs }

\* -------------------------------------------------------------------- state
Procs == { "web", "cli" }

VARIABLES
  clock,     \* the wall clock, in seconds
  outputs,   \* the directory outputs/: file name -> file
  pc,        \* where each front-end's current job stands
  loc,       \* the local variables of each front-end's current job
  session,   \* st.session_state of the browser session
  shown,     \* the rows of "View Past Narrations" as last rendered
  njobs,     \* jobs started so far
  obs,       \* per front-end, what its current or last job did (history)
  wlog,      \* every write to outputs/ so far (history)
  san_in, san_out, san_twice, san_stage   \* tone sanitization exercised on its own

vars ==
  << clock, outputs, pc, loc, session, shown, njobs, obs, wlog,
     san_in, san_out, san_twice, san_stage >>

sanvars == << san_in, san_out, san_twice, san_stage >>

NoAudio == [empty |-> TRUE, of |-> << >>]

Loc0 ==
  [tone |-> << >>, prefix |-> << >>, rewritten |-> << >>,
   ts |-> << >>, txt_path |-> << >>, mp3_path |-> << >>]

\* whitespace-only or empty, said without strip()
AllWhitespace(s) == \A i \in 1..Len(s) : s[i] \in Whitespace

Obs0 ==
  [job |-> 0, blank |-> FALSE, missing |-> FALSE, tone |-> << >>, model |-> "",
   tags |-> NoTags, gen |-> NoGen, calls |-> << >>, written |-> {}, err |-> NoErr,
   tts |-> "none", stage |-> "none", outcome |-> "none", exit |-> -1, uncaught |-> FALSE]

Session0 == [rewritten |-> << >>, audio_bytes |-> NoAudio, last_meta |-> NoMeta]

Init ==
  /\ clock = 0
  /\ outputs = << >>
  /\ pc = [p \in Procs |-> "idle"]
  /\ loc = [p \in Procs |-> Loc0]
  /\ session = Session0
  /\ shown = << >>
  /\ njobs = 0
  /\ obs = [p \in Procs |-> Obs0]
  /\ wlog = {}
  /\ san_in = << >> /\ san_out = << >> /\ san_twice = << >> /\ san_stage = 0

\* One write to outputs/, as the history keeps it.
Wrote(p, name, prefix, ts) ==
  [job |-> obs[p].job, name |-> name, prefix |-> prefix, tone |-> loc[p].tone, ts |-> ts]

\* The clock advances by one second.
Tick ==
  /\ clock < MaxClock
  /\ clock' = clock + 1
  /\ UNCHANGED << outputs, pc, loc, session, shown, njobs, obs, wlog, sanvars >>

\* ------------------------------------------------------- browser front-end
\* The end of a script run that handled a Generate click: the handler's locals
\* are gone, and the rest of the script renders the past narrations.
WebEnds(o, out) ==
  /\ obs' = [obs EXCEPT !["web"] = o]
  /\ pc' = [pc EXCEPT !["web"] = "idle"]
  /\ loc' = [loc EXCEPT !["web"] = Loc0]
  /\ shown' = ViewPastNarrations(out)

\* except Exception as e: st.error(str(e))
WebFails(o, stage, err, out) ==
  WebEnds([o EXCEPT !.outcome = "error", !.stage = stage, !.err = err], out)

\* if gen: the validation of the text (the upload replaces the pasted text)
WebGenerate ==
  /\ pc["web"] = "idle"
  /\ njobs < MaxJobs
  /\ njobs' = njobs + 1
  /\ \E text \in WebTexts, tone \in WebTones :
       LET o == [Obs0 EXCEPT !.job = njobs + 1, !.blank = AllWhitespace(text),
                             !.tone = tone, !.outcome = "running"]
       IN  IF Strip(text) = << >>
           THEN WebEnds([o EXCEPT !.outcome = "warning", !.stage = "validating"], outputs)
           ELSE /\ obs' = [obs EXCEPT !["web"] = o]
                /\ pc' = [pc EXCEPT !["web"] = "rewriting"]
                /\ loc' = [loc EXCEPT !["web"] = [Loc0 EXCEPT !.tone = tone]]
                /\ UNCHANGED shown
  /\ UNCHANGED << clock, outputs, session, wlog, sanvars >>

\* rewritten = rewrite_with_ollama(...); st.session_state.rewritten = rewritten
WebRewrite ==
  /\ pc["web"] = "rewriting"
  /\ \E c \in RewriteCases :
       LET r == c.r
           o == [obs["web"] EXCEPT !.model = c.model, !.tags = c.tags, !.gen = r.gen,
                                   !.calls = @ \o r.calls]
       IN  IF r.ok
           THEN /\ obs' = [obs EXCEPT !["web"] = o]
                /\ session' = [session EXCEPT !.rewritten = r.text]
                /\ loc' = [loc EXCEPT !["web"].rewritten = r.text]
                /\ pc' = [pc EXCEPT !["web"] = "synthesizing"]
                /\ UNCHANGED shown
           ELSE /\ WebFails(o, "rewriting", r.err, outputs)
                /\ UNCHANGED session
  /\ UNCHANGED << clock, outputs, njobs, wlog, sanvars >>

\* How tts_with_gtts_to_bytes / tts_with_gtts can end: audio, gTTS not
\* installed, or gTTS raising (its network call failed).
GttsOutcomes == { "ok", "no_gtts", "gtts_error" }

\* audio_bytes = tts_with_gtts_to_bytes(...); st.session_state.audio_bytes = audio_bytes
WebSynthesize ==
  /\ pc["web"] = "synthesizing"
  /\ \E res \in GttsOutcomes :
       LET o == [obs["web"] EXCEPT !.calls = Append(@, "tts"), !.tts = res]
       IN  IF res = "ok"
           THEN /\ obs' = [obs EXCEPT !["web"] = o]
                /\ session' = [session EXCEPT
                                 !.audio_bytes = [empty |-> FALSE, of |-> loc["web"].rewritten]]
                /\ pc' = [pc EXCEPT !["web"] = "stamp"]
                /\ UNCHANGED << loc, shown >>
           ELSE /\ WebFails(o, "synthesizing", [NoErr EXCEPT !.kind = res], outputs)
                /\ UNCHANGED session
  /\ UNCHANGED << clock, outputs, njobs, wlog, sanvars >>

\* outputs = ensure_outputs_dir(); ts = now().strftime(...); tone_safe = _safe_name(tone)
WebStamp ==
  /\ pc["web"] = "stamp"
  /\ loc' = [loc EXCEPT !["web"].ts = Strftime(clock)]
  /\ pc' = [pc EXCEPT !["web"] = "save_text"]
  /\ UNCHANGED << clock, outputs, session, shown, njobs, obs, wlog, sanvars >>

\* txt_path = save_text(rewritten, tone): save_text reads the clock itself
WebSaveText ==
  /\ pc["web"] = "save_text"
  /\ \E w \in WriteOutcomes :
       LET ts == Strftime(clock)
           name == TextName(loc["web"].tone, ts)
           out == AfterWrite(outputs, name, FileOf("txt", loc["web"].rewritten, NoMeta, TRUE), w)
           o == [obs["web"] EXCEPT !.written = IF w = "fail_nofile" THEN @ ELSE @ \cup { name }]
       IN  /\ outputs' = out
           /\ wlog' = IF w = "fail_nofile" THEN wlog
                      ELSE wlog \cup { Wrote("web", name, StrRewritten, ts) }
           /\ IF w = "ok"
              THEN /\ obs' = [obs EXCEPT !["web"] = o]
                   /\ loc' = [loc EXCEPT !["web"].txt_path = name]
                   /\ pc' = [pc EXCEPT !["web"] = "write_audio"]
                   /\ UNCHANGED shown
              ELSE WebFails(o, "persisting", [NoErr EXCEPT !.kind = "oserror"], out)
  /\ UNCHANGED << clock, session, njobs, sanvars >>

\* An audio write whose failure is swallowed: the handler goes on to the
\* metadata as if the file had been written.
WebWriteAudioUnchecked ==
  /\ pc["web"] = "write_audio"
  /\ \E w \in WriteOutcomes :
       LET name == Mp3Name(StrSpeech, loc["web"].tone, loc["web"].ts)
           out == AfterWrite(outputs, name, FileOf("mp3", session.audio_bytes.of, NoMeta, TRUE), w)
           o == [obs["web"] EXCEPT !.written = IF w = "fail_nofile" THEN @ ELSE @ \cup { name }]
       IN  /\ outputs' = out
           /\ wlog' = IF w = "fail_nofile" THEN wlog
                      ELSE wlog \cup { Wrote("web", name, StrSpeech, loc["web"].ts) }
           /\ obs' = [obs EXCEPT !["web"] = o]
           /\ loc' = [loc EXCEPT !["web"].mp3_path = name]
           /\ pc' = [pc EXCEPT !["web"] = "write_meta"]
           /\ UNCHANGED shown
  /\ UNCHANGED << clock, session, njobs, sanvars >>

\* mp3_path = outputs / f"speech_{tone_safe}_{ts}.mp3"; mp3_path.write_bytes(audio_bytes)
WebWriteAudio ==
  /\ pc["web"] = "write_audio"
  /\ \E w \in WriteOutcomes :
       LET name == Mp3Name(StrSpeech, loc["web"].tone, loc["web"].ts)
           out == AfterWrite(outputs, name, FileOf("mp3", session.audio_bytes.of, NoMeta, TRUE), w)
           o == [obs["web"] EXCEPT !.written = IF w = "fail_nofile" THEN @ ELSE @ \cup { name }]
       IN  /\ outputs' = out
           /\ wlog' = IF w = "fail_nofile" THEN wlog
                      ELSE wlog \cup { Wrote("web", name, StrSpeech, loc["web"].ts) }
           /\ IF w = "ok"
              THEN /\ obs' = [obs EXCEPT !["web"] = o]
                   /\ loc' = [loc EXCEPT !["web"].mp3_path = name]
                   /\ pc' = [pc EXCEPT !["web"] = "write_meta"]
                   /\ UNCHANGED shown
              ELSE WebFails(o, "persisting", [NoErr EXCEPT !.kind = "oserror"], out)
  /\ UNCHANGED << clock, session, njobs, sanvars >>

\* meta = {...}; (outputs / f"meta_{tone_safe}_{ts}.json").write_text(...);
\* st.session_state.last_meta = meta; st.success(...)
WebWriteMeta ==
  /\ pc["web"] = "write_meta"
  /\ \E w \in WriteOutcomes :
       LET name == MetaName(loc["web"].tone, loc["web"].ts)
           meta == [timestamp |-> loc["web"].ts, tone |-> loc["web"].tone,
                    text_file |-> loc["web"].txt_path, audio_file |-> loc["web"].mp3_path]
           out == AfterWrite(outputs, name, FileOf("json", << >>, meta, TRUE), w)
           o == [obs["web"] EXCEPT !.written = IF w = "fail_nofile" THEN @ ELSE @ \cup { name }]
       IN  /\ outputs' = out
           /\ wlog' = IF w = "fail_nofile" THEN wlog
                      ELSE wlog \cup { Wrote("web", name, StrMeta, loc["web"].ts) }
           /\ IF w = "ok"
              THEN /\ session' = [session EXCEPT !.last_meta = meta]
                   /\ WebEnds([o EXCEPT !.outcome = "success"], out)
              ELSE /\ WebFails(o, "persisting", [NoErr EXCEPT !.kind = "oserror"], out)
                   /\ UNCHANGED session
  /\ UNCHANGED << clock, njobs, sanvars >>

\* A script run without a Generate click: only the rendering.
WebRerun ==
  /\ pc["web"] = "idle"
  /\ shown' = ViewPastNarrations(outputs)
  /\ UNCHANGED << clock, outputs, pc, loc, session, njobs, obs, wlog, sanvars >>

\* ------------------------------------------------------ terminal front-end
\* sys.exit(code), or the interpreter ending on an uncaught exception (which
\* prints the traceback and exits with status 1).
CliExits(o, code, stage, err, uncaught) ==
  /\ obs' = [obs EXCEPT !["cli"] =
               [o EXCEPT !.exit = code, !.stage = stage, !.err = err, !.uncaught = uncaught,
                         !.outcome = IF code = 0 THEN "success" ELSE "error"]]
  /\ pc' = [pc EXCEPT !["cli"] = "idle"]
  /\ loc' = [loc EXCEPT !["cli"] = Loc0]

\* main, "Gather text" and "Pick tone": the input file or the interactive
\* paste, the check that some text was given, then the tone
CliGatherInputs ==
  /\ pc["cli"] = "idle"
  /\ njobs < MaxJobs
  /\ njobs' = njobs + 1
  /\ \E g \in GatherCases :
       LET o == [Obs0 EXCEPT !.job = njobs + 1, !.outcome = "running", !.tone = g.tone,
                             !.blank = AllWhitespace(g.raw),
                             !.missing = (g.end = "input_file_not_found")]
       IN  IF g.end \in { "input_file_not_found", "no_input_text" }
           THEN CliExits(o, 1, "validating", [NoErr EXCEPT !.kind = g.end], FALSE)
           ELSE IF g.end = "EOFError"
           THEN CliExits(o, 1, "picking", [NoErr EXCEPT !.kind = g.end], TRUE)
           ELSE /\ obs' = [obs EXCEPT !["cli"] = o]
                /\ pc' = [pc EXCEPT !["cli"] = "rewriting"]
                /\ loc' = [loc EXCEPT !["cli"] = [Loc0 EXCEPT !.tone = g.tone]]
  /\ UNCHANGED << clock, outputs, session, shown, wlog, sanvars >>

\* try: rewritten = rewrite_with_ollama(...) except Exception: sys.exit(2)
CliRewrite ==
  /\ pc["cli"] = "rewriting"
  /\ \E c \in RewriteCases :
       LET r == c.r
           o == [obs["cli"] EXCEPT !.model = c.model, !.tags = c.tags, !.gen = r.gen,
                                   !.calls = @ \o r.calls]
       IN  IF r.ok
           THEN /\ obs' = [obs EXCEPT !["cli"] = o]
                /\ loc' = [loc EXCEPT !["cli"].rewritten = r.text]
                /\ pc' = [pc EXCEPT !["cli"] = "save_text"]
           ELSE CliExits(o, 2, "rewriting", r.err, FALSE)
  /\ UNCHANGED << clock, outputs, session, shown, njobs, wlog, sanvars >>

\* text_path = save_text(rewritten, tone), outside any try
CliSaveText ==
  /\ pc["cli"] = "save_text"
  /\ \E w \in WriteOutcomes :
       LET ts == Strftime(clock)
           name == TextName(loc["cli"].tone, ts)
           o == [obs["cli"] EXCEPT !.written = IF w = "fail_nofile" THEN @ ELSE @ \cup { name }]
       IN  /\ outputs' = AfterWrite(outputs, name,
                                    FileOf("txt", loc["cli"].rewritten, NoMeta, TRUE), w)
           /\ wlog' = IF w = "fail_nofile" THEN wlog
                      ELSE wlog \cup { Wrote("cli", name, StrRewritten, ts) }
           /\ IF w = "ok"
              THEN /\ obs' = [obs EXCEPT !["cli"] = o]
                   /\ loc' = [loc EXCEPT !["cli"].txt_path = name]
                   /\ pc' = [pc EXCEPT !["cli"] = "stamp"]
              ELSE CliExits(o, 1, "persisting", [NoErr EXCEPT !.kind = "oserror"], TRUE)
  /\ UNCHANGED << clock, session, shown, njobs, sanvars >>

\* out_dir = ensure_outputs_dir(); ts = ...; mp3_path = out_dir / f"{args.out_prefix}_{safe_tone}_{ts}.mp3"
CliStamp ==
  /\ pc["cli"] = "stamp"
  /\ \E prefix \in Prefixes :
       loc' = [loc EXCEPT !["cli"].ts = Strftime(clock),
                          !["cli"].mp3_path = Mp3Name(prefix, loc["cli"].tone, Strftime(clock)),
                          !["cli"].prefix = prefix]
  /\ pc' = [pc EXCEPT !["cli"] = "tts"]
  /\ UNCHANGED << clock, outputs, session, shown, njobs, obs, wlog, sanvars >>

\* How tts_with_piper can end.
PiperOutcomes ==
  { "ok", "no_piper", "piper_failed", "ffmpeg_failed", "no_converter" }

\* The files a synthesis call of the terminal leaves behind: "mp3" whole,
\* "mp3part" truncated, "wav" the intermediate waveform.  Whether a failed
\* gTTS save, a failed Piper run or a failed conversion leaves its target
\* behind is up to that program: either case can happen (left).
TtsLeaves(piper, res, left) ==
  IF res = "ok" THEN { "mp3" }
  ELSE IF ~piper THEN (IF res = "gtts_error" /\ left THEN { "mp3part" } ELSE {})
  ELSE IF res = "no_piper" THEN {}
  ELSE IF res = "piper_failed" THEN (IF left THEN { "wav" } ELSE {})
  ELSE IF res = "no_converter" THEN { "wav" }
  ELSE { "wav" } \cup (IF left THEN { "mp3part" } ELSE {})

\* try: tts_with_piper(...) or tts_with_gtts(...) except Exception: sys.exit(3);
\* then print("Done.") and the exit with status 0
CliTTS ==
  /\ pc["cli"] = "tts"
  /\ \E piper \in BOOLEAN, left \in BOOLEAN :
     \E res \in (IF piper THEN PiperOutcomes ELSE GttsOutcomes) :
       LET mp3 == loc["cli"].mp3_path
           wav == WavName(mp3)
           kinds == TtsLeaves(piper, res, left)
           audio == FileOf("mp3", loc["cli"].rewritten, NoMeta, "mp3" \in kinds)
           out1 == IF kinds \cap { "mp3", "mp3part" } # {} THEN Put(outputs, mp3, audio)
                   ELSE outputs
           out2 == IF "wav" \in kinds
                   THEN Put(out1, wav, FileOf("wav", loc["cli"].rewritten, NoMeta, TRUE))
                   ELSE IF piper /\ res = "ok" THEN Remove(out1, wav)
                   ELSE out1
           names == (IF kinds \cap { "mp3", "mp3part" } # {} THEN { mp3 } ELSE {})
                    \cup (IF "wav" \in kinds \/ (piper /\ res = "ok") THEN { wav } ELSE {})
           o == [obs["cli"] EXCEPT !.calls = Append(@, "tts"), !.tts = res,
                                   !.written = @ \cup names]
       IN  /\ outputs' = out2
           /\ wlog' = wlog \cup { Wrote("cli", n, loc["cli"].prefix, loc["cli"].ts) : n \in names }
           /\ IF res = "ok"
              THEN CliExits(o, 0, "none", NoErr, FALSE)
              ELSE CliExits(o, 3, "synthesizing", [NoErr EXCEPT !.kind = res], FALSE)
  /\ UNCHANGED << clock, session, shown, njobs, sanvars >>

\* ------------------------------------------------------------ specification
Next ==
  \/ Tick
  \/ WebGenerate
  \/ WebRewrite
  \/ WebSynthesize
  \/ WebStamp
  \/ WebSaveText
  \/ WebWriteAudio
  \/ WebWriteMeta
  \/ WebRerun
  \/ CliGatherInputs
  \/ CliRewrite
  \/ CliSaveText
  \/ CliStamp
  \/ CliTTS

Spec == Init /\ [][Next]_vars

\* ------------------------------------------- tone sanitization on its own
ToneAlphabet == { "a", "7", "_", "-", "!", " " }

SeqsUpTo(A, n) == UNION { [1..k -> A] : k \in 0..n }

StrSuspensefulBangs == << "S", "u", "s", "p", "e", "n", "s", "e", "f", "u", "l", "!", "!" >>

StrSuspenseful == << "S", "u", "s", "p", "e", "n", "s", "e", "f", "u", "l" >>

StrCalmAndSlow == << "C", "a", "l", "m", " ", "&", " ", "S", "l", "o", "w" >>

StrCalmUUSlow == << "C", "a", "l", "m", "_", "_", "S", "l", "o", "w" >>

ToneInputs == SeqsUpTo(ToneAlphabet, MaxToneLen) \cup { StrSuspensefulBangs, StrCalmAndSlow }

InitSan ==
  /\ clock = 0
  /\ outputs = << >>
  /\ pc = [p \in Procs |-> "idle"]
  /\ loc = [p \in Procs |-> Loc0]
  /\ session = Session0
  /\ shown = << >>
  /\ njobs = 0
  /\ obs = [p \in Procs |-> Obs0]
  /\ wlog = {}
  /\ san_in \in ToneInputs
  /\ san_out = << >> /\ san_twice = << >> /\ san_stage = 0

mainvars == << clock, outputs, pc, loc, session, shown, njobs, obs, wlog >>

\* tone_safe = _safe_name(tone)
ApplySafeName ==
  /\ san_stage = 0
  /\ san_out' = SafeName(san_in)
  /\ san_stage' = 1
  /\ UNCHANGED << mainvars, san_in, san_twice >>

\* the sanitized tone sanitized again
ApplySafeNameAgain ==
  /\ san_stage = 1
  /\ san_twice' = SafeName(san_out)
  /\ san_stage' = 2
  /\ UNCHANGED << mainvars, san_in, san_out >>

NextSan ==
  \/ ApplySafeName
  \/ ApplySafeNameAgain

SpecSan == InitSan /\ [][NextSan]_vars

\* ------------------------------------------------------------------ claims
HasSuffix(names, ext) == { n \in names : EndsWith(n, ext) }

\* The tone+timestamp key of a job whose files were stamped at second t.
KeyAt(tone, t) == StrUnderscore \o SafeName(tone) \o StrUnderscore \o Strftime(t)

\* C1: a successful run of either front-end leaves exactly one new text file,
\* one new audio file and one new metadata file, the three named with the same
\* sanitized-tone + timestamp key, and the text_file and audio_file paths
\* recorded in the metadata name files that exist.
C1_SuccessLeavesOneTriple ==
  \A p \in Procs :
    obs[p].outcome = "success" =>
      LET w == obs[p].written
          txt == HasSuffix(w, StrTxt)
          mp3 == HasSuffix(w, StrMp3)
          json == HasSuffix(w, StrJson)
      IN  /\ Cardinality(txt) = 1 /\ Cardinality(mp3) = 1 /\ Cardinality(json) = 1
          /\ \E t \in 0..MaxClock :
               /\ \A n \in txt : EndsWith(n, KeyAt(obs[p].tone, t) \o StrTxt)
               /\ \A n \in mp3 : EndsWith(n, KeyAt(obs[p].tone, t) \o StrMp3)
               /\ \A n \in json : EndsWith(n, KeyAt(obs[p].tone, t) \o StrJson)
          /\ \A n \in json :
               n \in DOMAIN outputs =>
                 /\ outputs[n].meta.text_file \in DOMAIN outputs
                 /\ outputs[n].meta.audio_file \in DOMAIN outputs

\* C2: when synthesis is invoked the job has written no file, and after a
\* synthesis failure no text, audio or metadata file of the job exists, in
\* both front-ends and with both synthesis strategies.
C2_SynthesisFailureLeavesNothing ==
  \A p \in Procs :
    /\ pc[p] \in { "synthesizing", "tts" } => obs[p].written = {}
    /\ (obs[p].outcome = "error" /\ obs[p].stage = "synthesizing") =>
         obs[p].written \cap DOMAIN outputs = {}

\* C3: a job whose submitted text is empty or whitespace-only ends at the
\* validation: it issues no listing, generation or synthesis call and writes
\* no file.
C3_BlankInputDoesNothing ==
  \A p \in Procs :
    (obs[p].job > 0 /\ obs[p].blank) =>
      /\ pc[p] = "idle"
      /\ obs[p].stage = "validating"
      /\ obs[p].calls = << >>
      /\ obs[p].written = {}
      /\ \A w \in wlog : w.job # obs[p].job

\* Both front-ends have rejected a whitespace-only text that is not empty
\* (the only blank browser text that a strip() of spaces alone would keep,
\* and a pasted terminal text of blank lines).
C3_Witness ==
  /\ obs["web"].job > 0 /\ obs["web"].blank /\ obs["web"].outcome = "warning"
  /\ obs["cli"].job > 0 /\ obs["cli"].blank /\ ~obs["cli"].missing /\ obs["cli"].exit = 1

\* The names the endpoint's listing call returned (none when it did not answer
\* with status 200).
Listed(tags) ==
  IF tags.kind = "http" /\ tags.status = 200
  THEN { tags.models[i].name : i \in { j \in 1..Len(tags.models) : tags.models[j].has_name } }
  ELSE {}

\* C4: when the requested model is not among the models the listing call
\* returned, the rewrite fails with the error that names the requested model
\* and lists the models returned, and no generation request is issued.
C4_AbsentModelFailsBeforeGenerate ==
  \A p \in Procs :
    (obs[p].tags.kind # "none" /\ obs[p].model \notin Listed(obs[p].tags)) =>
      /\ obs[p].err.kind = "model_not_found"
      /\ obs[p].err.model = obs[p].model
      /\ Elems(obs[p].err.installed) = Listed(obs[p].tags)
      /\ "generate" \notin Elems(obs[p].calls)
      /\ obs[p].stage = "rewriting"

\* A job asked for a model missing from a listing that named another model.
C4_Witness ==
  \E p \in Procs :
    /\ obs[p].tags.status = 200
    /\ Listed(obs[p].tags) # {}
    /\ obs[p].model \notin Listed(obs[p].tags)
    /\ obs[p].err.kind = "model_not_found"

\* C5: a network failure of the listing call or of the generation call ends
\* the job with the unreachable-endpoint error carrying the network cause,
\* never with the model-not-found error.
C5_UnreachableIsDistinct ==
  \A p \in Procs :
    /\ obs[p].tags.kind = "neterr" =>
         obs[p].err.kind = "unreachable" /\ obs[p].err.cause = obs[p].tags.cause
    /\ obs[p].gen.kind = "neterr" =>
         obs[p].err.kind = "unreachable" /\ obs[p].err.cause = obs[p].gen.cause

\* The rewrite stage of the job failed, said from what the endpoint answered.
RewriteFailed(o) ==
  /\ o.tags.kind # "none"
  /\ \/ o.model \notin Listed(o.tags)
     \/ o.gen.kind # "http"
     \/ o.gen.status # 200
     \/ ~o.gen.has_response

\* C6: a job whose rewrite stage failed, for whichever reason, ends in Failed
\* at the Rewriting state: it never invokes synthesis and writes no file.
C6_RewriteFailureStopsTheJob ==
  \A p \in Procs :
    RewriteFailed(obs[p]) =>
      /\ pc[p] = "idle"
      /\ obs[p].outcome = "error"
      /\ obs[p].stage = "rewriting"
      /\ obs[p].err.kind # "none"
      /\ "tts" \notin Elems(obs[p].calls)
      /\ obs[p].written = {}
      /\ \A w \in wlog : w.job # obs[p].job
      /\ p = "cli" => obs[p].exit = 2

\* The browser job failed on a non-200 status and the terminal job on a
\* response without the generated-text field.
C6_Witness ==
  /\ obs["web"].gen.kind = "http" /\ obs["web"].gen.status = 500
  /\ obs["web"].outcome = "error"
  /\ obs["cli"].gen.status = 200 /\ ~obs["cli"].gen.has_response
  /\ obs["cli"].exit = 2

\* The timestamp a narration's file name ends with.
TimestampOf(name) ==
  LET stem == Stem(name)
      n == Len(Strftime(0))
  IN  IF Len(stem) >= n THEN SubSeq(stem, Len(stem) - n + 1, Len(stem)) ELSE stem

\* C7: the past narrations are listed newest-first by timestamp, whatever
\* their tones: no listed row carries an older timestamp than a row below it.
C7_ListingNewestFirst ==
  \A i, j \in 1..Len(shown) :
    i < j => ~StrLess(TimestampOf(shown[i].name), TimestampOf(shown[j].name))

AllowedChars(s) == \A i \in 1..Len(s) : IsAlnum(s[i]) \/ s[i] \in { "-", "_" }

NoOuterUnderscore(s) == s = << >> \/ (s[1] # "_" /\ s[Len(s)] # "_")

\* What the claim states of every tone, the two examples aside.
SanitizedWell ==
  /\ san_stage >= 1 => AllowedChars(san_out) /\ NoOuterUnderscore(san_out)
  /\ san_stage = 2 => san_twice = san_out
  /\ (san_stage >= 1 /\ san_in = StrSuspensefulBangs) => san_out = StrSuspenseful

\* C8: sanitization is idempotent, its result holds only
\* alphanumerics, hyphens and underscores with no leading or trailing
\* underscore, "Suspenseful!!" becomes "Suspenseful" and "Calm & Slow"
\* becomes "Calm__Slow".
C8_SanitizeAsStated ==
  /\ SanitizedWell
  /\ (san_stage >= 1 /\ san_in = StrCalmAndSlow) => san_out = StrCalmUUSlow

\* C9 as stated: two jobs write the same file name only if they use the same
\* tone and the same one-second timestamp.
C9_CollideOnlySameToneAndSecond ==
  \A a, b \in wlog :
    (a.job # b.job /\ a.name = b.name) => (a.tone = b.tone /\ a.ts = b.ts)

\* C9, amended: two jobs write the same file name only if the name carries
\* the same one-second timestamp and, when the names were built with the same
\* prefix, tones with the same sanitized form; and no file written is removed
\* again, but for the terminal's intermediate .wav.
C9_CollideOnlySameSafeToneAndSecond ==
  /\ \A a, b \in wlog :
       (a.job # b.job /\ a.name = b.name) =>
         /\ a.ts = b.ts
         /\ a.prefix = b.prefix => SafeName(a.tone) = SafeName(b.tone)
  /\ \A w \in wlog : w.name \in DOMAIN outputs \/ EndsWith(w.name, StrWav)

\* Two jobs with different tones have written the same file name.
C9_Witness ==
  \E a, b \in wlog : a.job # b.job /\ a.name = b.name /\ a.tone # b.tone

\* C10: the terminal run exits with 0 exactly when rewrite and synthesis both
\* succeeded, with 1 exactly when the input is missing or empty (and before
\* any rewrite call), with 2 exactly when the rewrite failed (and before any
\* synthesis call), with 3 exactly when the synthesis failed, and never
\* otherwise.
C10_ExitCodes ==
  LET o == obs["cli"]
  IN  (o.job > 0 /\ pc["cli"] = "idle") =>
        /\ o.exit \in 0..3
        /\ ~o.uncaught
        /\ o.exit = 0 <=> (o.tags.kind # "none" /\ ~RewriteFailed(o) /\ o.tts = "ok")
        /\ o.exit = 1 <=> (o.missing \/ o.blank)
        /\ o.exit = 1 => o.calls = << >>
        /\ o.exit = 2 <=> RewriteFailed(o)
        /\ o.exit = 2 => "tts" \notin Elems(o.calls)
        /\ o.exit = 3 <=> o.tts \notin { "none", "ok" }

\* The files of outputs/ of one kind among the given names.
OfKind(names, ext) == { n \in names : EndsWith(n, ext) }

\* C11: the browser handler writes the text file, then the audio file, then
\* the metadata file: a job that has written its audio has written its text,
\* a job that has written its metadata has written both, and every metadata
\* file in outputs/ (a truncated one included) names a text file and an
\* audio file that exist, also after a write failed between two others.
C11_MetaNeverDangles ==
  /\ \A n \in OfKind(DOMAIN outputs, StrJson) :
       /\ outputs[n].meta.text_file \in OfKind(DOMAIN outputs, StrTxt)
       /\ outputs[n].meta.audio_file \in OfKind(DOMAIN outputs, StrMp3)
  /\ OfKind(obs["web"].written, StrMp3) # {} => OfKind(obs["web"].written, StrTxt) # {}
  /\ OfKind(obs["web"].written, StrJson) # {} =>
       /\ OfKind(obs["web"].written, StrTxt) # {}
       /\ OfKind(obs["web"].written, StrMp3) # {}
  /\ pc["web"] = "write_audio" => loc["web"].txt_path \in DOMAIN outputs
  /\ pc["web"] = "write_meta" =>
       loc["web"].txt_path \in DOMAIN outputs /\ loc["web"].mp3_path \in DOMAIN outputs

\* A metadata file is stored, and a later browser job failed while persisting
\* with its text written and its audio not.
C11_Witness ==
  /\ OfKind(DOMAIN outputs, StrJson) # {}
  /\ pc["web"] = "idle"
  /\ obs["web"].outcome = "error" /\ obs["web"].stage = "persisting"
  /\ OfKind(obs["web"].written, StrTxt) # {}
  /\ OfKind(obs["web"].written, StrMp3) = {}

\* The place of a call in the pipeline.
StageRank(call) == IF call = "tags" THEN 1 ELSE IF call = "generate" THEN 2 ELSE 3

\* What C12 states of one front-end's job.
NoRetryInOrder(p) ==
  /\ \A c \in { "tags", "generate", "tts" } :
       Cardinality({ i \in 1..Len(obs[p].calls) : obs[p].calls[i] = c }) <= 1
  /\ \A i, j \in 1..Len(obs[p].calls) :
       i < j => StageRank(obs[p].calls[i]) < StageRank(obs[p].calls[j])
  /\ obs[p].calls # << >> => ~obs[p].blank
  /\ obs[p].written # {} => "tts" \in Elems(obs[p].calls)
  /\ obs[p].err.kind # "none" => pc[p] = "idle" /\ obs[p].outcome = "error"

\* C12: no stage is retried and the stages run in order: within one job the
\* listing call, the generation call and the synthesis call are each issued
\* at most once and in that order, never for a blank text; nothing is written
\* to outputs/ before the synthesis call; and the first failure ends the job
\* with that one error.
C12_NoRetryStagesInOrder == \A p \in Procs : NoRetryInOrder(p)

\* The browser's last job failed after its rewrite had succeeded, so that the
\* session's rewritten text is that job's.
FailedAfterRewrite ==
  /\ obs["web"].outcome = "error"
  /\ obs["web"].stage \in { "synthesizing", "persisting" }

\* C13: between two jobs the browser session's stored result is of one job:
\* the stored audio was synthesized from the stored rewritten text, and after
\* a job that failed once its rewrite was stored no metadata of an earlier
\* job is left next to the new text.
C13_SessionResultOfOneJob ==
  pc["web"] = "idle" =>
    /\ ~session.audio_bytes.empty => session.audio_bytes.of = session.rewritten
    /\ FailedAfterRewrite => session.last_meta = NoMeta

====
